---- MODULE Spec2Model ----
(***************************************************************************)
(* Authentication and session-token subsystem of the contact-management    *)
(* backend: the users table, the Redis cache, the JWT codec and the        *)
(* handlers of routes_auth.py and routes_users.py.                         *)
(*                                                                         *)
(* Time is counted in seconds.  A JWT is the deterministic HS256 encoding  *)
(* of its claims (sub, scope, iat, exp; jose turns datetimes into whole    *)
(* seconds), so a token is modelled as the record of its claims plus the   *)
(* fact whether its signature verifies under SECRET_KEY.                   *)
(*                                                                         *)
(* Every handler is an operator from the system state s and the request's  *)
(* input to [resp, s]: the response and the state the handler leaves.  The *)
(* actions apply the handlers to the variables; the properties apply them  *)
(* to every reachable state and every input.                               *)
(*                                                                         *)
(* Left out: the salt of bcrypt (a hash is determined by its password),    *)
(* the request rate limiter of main.py, the contacts routes, and the       *)
(* interleaving of concurrent requests (a handler runs to completion, its  *)
(* background email task with it).                                         *)
(***************************************************************************)
EXTENDS Integers, FiniteSets, Sequences, TLC

VARIABLES
    users,      \* rows of table "users"
    next_id,    \* next value of the autoincrement primary key
    cache,      \* Redis: set of [key, value, exp] entries
    now,        \* wall clock, seconds
    issued,     \* tokens handed to clients (responses and delivered emails)
    used,       \* history: tokens with which POST /reset_password changed a password
    consumed,   \* history: tokens of used not shown to GET /get_reset_token since
    rotated,    \* history: tokens presented to a successful GET /refresh_token
    inflight    \* refresh_token requests between their store read and write

vars == <<users, next_id, cache, now, issued, used, consumed, rotated, inflight>>

\* The system state the handlers work on.  outbox holds the background tasks
\* (send_email) a handler has scheduled; they run once its response is out.
\* redis_up tells whether the Redis server answers during the request.
State ==
    [users |-> users, next_id |-> next_id, cache |-> cache, now |-> now,
     issued |-> issued, outbox |-> {}, redis_up |-> TRUE]

\* The state a request meets, with Redis reachable or not
Serving(up) == [State EXCEPT !.redis_up = up]

----------------------------------------------------------------------------
(* Bounds of the model *)

MaxId == 2
MaxIssued == 4

(* Input values *)

Emails == {"e1"}
Usernames == {"u1"}
Passwords == {"p1", "p2"}
Avatars == {"a1", "a2"}

\* The clock readings: a start, the cache TTL later, and a second after that
Times == {0, 900, 901}

----------------------------------------------------------------------------
(* Program constants *)

AccessMinutes == 15
RefreshDays == 7
EmailMinutes == 15
CacheTTL == 900

AccessTTL == AccessMinutes * 60
RefreshTTL == RefreshDays * 24 * 60 * 60
EmailTTL == EmailMinutes * 60

----------------------------------------------------------------------------
(* Token codec and credential hasher: services/auth.py *)

NoToken == [sub |-> "", scope |-> "", iat |-> 0, exp |-> 0, signed |-> FALSE]

create_access_token(sub, at) ==
    [sub |-> sub, scope |-> "access_token", iat |-> at, exp |-> at + AccessTTL,
     signed |-> TRUE]

create_refresh_token(sub, at) ==
    [sub |-> sub, scope |-> "refresh_token", iat |-> at, exp |-> at + RefreshTTL,
     signed |-> TRUE]

create_email_token(sub, purpose, at) ==
    [sub |-> sub, scope |-> purpose, iat |-> at, exp |-> at + EmailTTL,
     signed |-> TRUE]

\* jwt.decode: the signature verifies and the token is not past its exp
\* A verification of the signature alone
JwtValid_signature(token, at) == token.signed

JwtValid(token, at) == token.signed /\ ~(token.exp < at)

DecodeScopes == {"refresh_token", "confirm_email", "reset_password"}

\* Auth.decode_token: [status, detail, email]
decode_token(token, at) ==
    IF ~JwtValid(token, at)
    THEN [status |-> 401, detail |-> "Could not validate credentials", email |-> ""]
    ELSE IF token.scope \in DecodeScopes
    THEN [status |-> 200, detail |-> "", email |-> token.sub]
    ELSE [status |-> 422, detail |-> "Invalid scope verification", email |-> ""]

get_password_hash(password) == [bcrypt |-> password]

\* A verification that accepts every password
verify_password_any(plain_password, hashed_password) == TRUE

verify_password(plain_password, hashed_password) ==
    hashed_password = get_password_hash(plain_password)

----------------------------------------------------------------------------
(* Identity store: db/models.py, crud/crud_users.py *)

NoUser ==
    [id |-> 0, username |-> "", email |-> "", password |-> get_password_hash(""),
     avatar |-> "", refresh_token |-> NoToken, created_at |-> 0, updated_at |-> 0,
     confirmed |-> FALSE]

HasUser(s, email) == \E u \in s.users : u.email = email

\* get_user_by_email: scalar_one() of the row with this email
get_user_by_email(s, email) == CHOOSE u \in s.users : u.email = email

\* An ORM commit of row old changed into row new: an UPDATE is emitted only
\* when a column changed, and it sets updated_at (onupdate=func.now()).
Persist(s, old, new) ==
    IF new = old THEN s.users
    ELSE (s.users \ {old}) \cup {[new EXCEPT !.updated_at = s.now]}

\* An update that skips a null token
update_token_truthy(s, user, token) ==
    IF token = NoToken THEN s.users
    ELSE Persist(s, user, [user EXCEPT !.refresh_token = token])

update_token(s, user, token) ==
    Persist(s, user, [user EXCEPT !.refresh_token = token])

\* A password update that also ends the identity's session
update_password_revoking(s, user, new_password) ==
    Persist(s, user, [user EXCEPT !.password = new_password,
                                  !.refresh_token = NoToken])

update_password(s, user, new_password) ==
    Persist(s, user, [user EXCEPT !.password = new_password])

\* update_token on the object a request loaded earlier: the commit emits
\* UPDATE users SET refresh_token = ... WHERE id = ... only when the attribute
\* differs from the loaded value, whatever the row holds by then
Flush(s, loaded, token) ==
    IF loaded.refresh_token = token \/ ~\E u \in s.users : u.id = loaded.id
    THEN s.users
    ELSE update_token(s, CHOOSE u \in s.users : u.id = loaded.id, token)

----------------------------------------------------------------------------
(* Cache: services/redis_service.py and its users *)

UserKey(email) == [kind |-> "user", email |-> email, token |-> NoToken]

NonceKey(email, token) == [kind |-> "reset_token", email |-> email, token |-> token]

\* A cache whose entries never run out
Live_forever(c, at) == c

\* Entries Redis still holds: a key with a TTL is gone once the TTL has run out
Live(c, at) == {en \in c : at < en.exp}

RedisHas(s, key) == \E en \in Live(s.cache, s.now) : en.key = key

RedisGet(s, key) == (CHOOSE en \in Live(s.cache, s.now) : en.key = key).value

\* A delete that leaves the key in place
RedisDelete_kept(c, key) == c

RedisDelete(c, key) == {en \in c : en.key # key}

\* redis.set(key, value) followed by redis.expire(key, 900)
RedisSetEx(c, key, value, at) ==
    RedisDelete(c, key) \cup {[key |-> key, value |-> value, exp |-> at + CacheTTL]}

\* jsonable_encoder(user) with "refresh_token" popped
Snapshot(user) ==
    [id |-> user.id, username |-> user.username, email |-> user.email,
     password |-> user.password, avatar |-> user.avatar,
     created_at |-> user.created_at, updated_at |-> user.updated_at,
     confirmed |-> user.confirmed]

\* User(**user_data_dict): a transient object, refresh_token unset
FromSnapshot(d) ==
    [id |-> d.id, username |-> d.username, email |-> d.email,
     password |-> d.password, avatar |-> d.avatar, refresh_token |-> NoToken,
     created_at |-> d.created_at, updated_at |-> d.updated_at,
     confirmed |-> d.confirmed]

----------------------------------------------------------------------------
(* Requests and responses *)

Resp(status, detail) ==
    [status |-> status, detail |-> detail, src |-> "", user |-> NoUser,
     access |-> NoToken, refresh |-> NoToken]

\* The handler's result: the response, and the state it leaves
Out(resp, s) == [resp |-> resp, s |-> s]

\* NoResultFound raised by scalar_one(), as no_result_exception_handler answers it
NotFound == Resp(404, "User not found.")

\* Tokens a client can present: those handed out, and a forgery
Forged == [sub |-> "e1", scope |-> "access_token", iat |-> 0, exp |-> AccessTTL,
           signed |-> FALSE]

Presentable(s) == s.issued \cup {Forged}

Success(resp) == resp.status \in {200, 201, 204}

\* redis.exceptions.ConnectionError has no handler: the server answers 500
ServerError == Resp(500, "Internal Server Error")

----------------------------------------------------------------------------
(* Auth.get_current_user: [status, detail, user, src, persistent, cache,    *)
(* reads]; reads lists what the call consulted, in order                    *)

CredentialsError(c) ==
    [status |-> 401, detail |-> "Could not validate credentials", user |-> NoUser,
     src |-> "", persistent |-> FALSE, cache |-> c, reads |-> <<>>]

\* Auth.get_current_user from "async with get_redis()" on: user is the object
\* that get_user_by_email returned to this call
get_current_user_cache(s, user) ==
    LET key == UserKey(user.email)
    IN  IF ~s.redis_up
        THEN [status |-> 500, detail |-> "Internal Server Error",
              user |-> NoUser, src |-> "", persistent |-> FALSE,
              cache |-> s.cache, reads |-> <<"store", "cache">>]
        ELSE IF RedisHas(s, key)
        THEN [status |-> 200, detail |-> "",
              user |-> FromSnapshot(RedisGet(s, key)), src |-> "cache",
              persistent |-> FALSE, cache |-> s.cache,
              reads |-> <<"store", "cache">>]
        ELSE [status |-> 200, detail |-> "", user |-> user, src |-> "store",
              persistent |-> TRUE,
              cache |-> RedisSetEx(s.cache, key, Snapshot(user), s.now),
              reads |-> <<"store", "cache">>]

\* A resolution that asks the cache first and the store on a miss
get_current_user_cache_first(s, token) ==
    IF ~JwtValid(token, s.now) \/ token.scope # "access_token"
    THEN CredentialsError(s.cache)
    ELSE IF s.redis_up /\ RedisHas(s, UserKey(token.sub))
    THEN [status |-> 200, detail |-> "",
          user |-> FromSnapshot(RedisGet(s, UserKey(token.sub))), src |-> "cache",
          persistent |-> FALSE, cache |-> s.cache, reads |-> <<"cache">>]
    ELSE IF ~HasUser(s, token.sub)
    THEN [status |-> 404, detail |-> "User not found.", user |-> NoUser,
          src |-> "", persistent |-> FALSE, cache |-> s.cache,
          reads |-> <<"cache", "store">>]
    ELSE [get_current_user_cache(s, get_user_by_email(s, token.sub))
              EXCEPT !.reads = <<"cache", "store">>]

\* A resolution that also wants the identity to hold a refresh token
get_current_user_session(s, token) ==
    IF ~JwtValid(token, s.now) \/ token.scope # "access_token"
    THEN CredentialsError(s.cache)
    ELSE IF ~HasUser(s, token.sub)
    THEN [status |-> 404, detail |-> "User not found.", user |-> NoUser,
          src |-> "", persistent |-> FALSE, cache |-> s.cache,
          reads |-> <<"store">>]
    ELSE IF get_user_by_email(s, token.sub).refresh_token = NoToken
    THEN [CredentialsError(s.cache) EXCEPT !.reads = <<"store">>]
    ELSE get_current_user_cache(s, get_user_by_email(s, token.sub))

get_current_user(s, token) ==
    IF ~JwtValid(token, s.now) \/ token.scope # "access_token"
    THEN CredentialsError(s.cache)
    ELSE IF ~HasUser(s, token.sub)
    THEN [status |-> 404, detail |-> "User not found.", user |-> NoUser,
          src |-> "", persistent |-> FALSE, cache |-> s.cache,
          reads |-> <<"store">>]
    ELSE get_current_user_cache(s, get_user_by_email(s, token.sub))

\* What a protected route answers when the dependency failed
AuthError(s, g) == Out(Resp(g.status, g.detail), [s EXCEPT !.cache = g.cache])

\* The response of a protected route that returns the current user
UserResp(status, detail, g, user) ==
    [Resp(status, detail) EXCEPT !.src = g.src, !.user = user]

----------------------------------------------------------------------------
(* routes/routes_auth.py *)

\* A uniqueness check on the email alone
Duplicate_email(s, email, username) == \E u \in s.users : u.email = email

\* The INSERT violates a unique constraint (users.username, users.email)
Duplicate(s, email, username) ==
    \E u \in s.users : u.email = email \/ u.username = username

\* POST /signup
signup(s, email, username, password, avatar) ==
    IF Duplicate(s, email, username)
    THEN Out(Resp(409, "Data already exists. Check input data, please"), s)
    ELSE LET new_user ==
                 [id |-> s.next_id, username |-> username, email |-> email,
                  password |-> get_password_hash(password), avatar |-> avatar,
                  refresh_token |-> NoToken, created_at |-> s.now,
                  updated_at |-> s.now, confirmed |-> FALSE]
         IN  Out([Resp(201, "") EXCEPT !.user = new_user],
                 [s EXCEPT !.users = @ \cup {new_user},
                           !.next_id = @ + 1,
                           !.outbox = @ \cup {[email |-> email,
                                               purpose |-> "confirm_email"]}])

\* A send whose failure takes the identity back out of the store
send_email_undo(s, task, delivered) ==
    LET token == create_email_token(task.email, task.purpose, s.now)
    IN  Out(Resp(0, task.purpose),
            [s EXCEPT !.outbox = @ \ {task},
                      !.issued = IF delivered THEN @ \cup {token} ELSE @,
                      !.users = IF delivered THEN @
                                ELSE {u \in @ : u.email # task.email}])

\* EmailService.send_email, run as a background task after the response
send_email(s, task, delivered) ==
    LET token == create_email_token(task.email, task.purpose, s.now)
    IN  Out(Resp(0, task.purpose),
            [s EXCEPT !.outbox = @ \ {task},
                      !.issued = IF delivered THEN @ \cup {token} ELSE @])

\* A login that does not ask whether the email is confirmed
login_unconfirmed(s, email, password) ==
    IF ~HasUser(s, email) THEN Out(NotFound, s)
    ELSE LET user == get_user_by_email(s, email)
             access_token == create_access_token(user.email, s.now)
             refresh_token == create_refresh_token(user.email, s.now)
         IN  IF ~verify_password(password, user.password)
             THEN Out(Resp(401, "Invalid password"), s)
             ELSE Out([Resp(200, "") EXCEPT !.access = access_token,
                                            !.refresh = refresh_token],
                      [s EXCEPT !.users = update_token(s, user, refresh_token),
                                !.issued = @ \cup {access_token, refresh_token}])

\* POST /login
login(s, email, password) ==
    IF ~HasUser(s, email) THEN Out(NotFound, s)
    ELSE LET user == get_user_by_email(s, email)
             access_token == create_access_token(user.email, s.now)
             refresh_token == create_refresh_token(user.email, s.now)
         IN  IF ~user.confirmed
             THEN Out(Resp(401, "Please, confirm your email!"), s)
             ELSE IF ~verify_password(password, user.password)
             THEN Out(Resp(401, "Invalid password"), s)
             ELSE Out([Resp(200, "") EXCEPT !.access = access_token,
                                            !.refresh = refresh_token],
                      [s EXCEPT !.users = update_token(s, user, refresh_token),
                                !.issued = @ \cup {access_token, refresh_token}])

\* GET /confirmed_email/{token}
confirmed_email(s, token) ==
    LET d == decode_token(token, s.now)
    IN  IF d.status # 200 THEN Out(Resp(d.status, d.detail), s)
        ELSE IF ~HasUser(s, d.email) THEN Out(NotFound, s)
        ELSE LET user == get_user_by_email(s, d.email)
             IN  IF user.confirmed
                 THEN Out(Resp(200, "Your email is alredy confirmed"), s)
                 ELSE Out(Resp(200, "Email confirmed"),
                          [s EXCEPT !.users =
                               Persist(s, user, [user EXCEPT !.confirmed = TRUE])])

\* GET /refresh_token, from the comparison on: user is the object that
\* get_user_by_email returned to this request
refresh_token_commit(s, token, user) ==
    LET access_token == create_access_token(token.sub, s.now)
        new_token == create_refresh_token(token.sub, s.now)
    IN  IF user.refresh_token # token
        THEN Out(Resp(401, "Invalid refresh token"),
                 [s EXCEPT !.users = Flush(s, user, NoToken)])
        ELSE Out([Resp(200, "") EXCEPT !.access = access_token,
                                       !.refresh = new_token],
                 [s EXCEPT !.users = Flush(s, user, new_token),
                           !.issued = @ \cup {access_token, new_token}])

\* GET /refresh_token
refresh_token(s, token) ==
    LET d == decode_token(token, s.now)
    IN  IF d.status # 200 THEN Out(Resp(d.status, d.detail), s)
        ELSE IF ~HasUser(s, d.email) THEN Out(NotFound, s)
        ELSE refresh_token_commit(s, token, get_user_by_email(s, d.email))

\* GET /logout
logout(s, token) ==
    LET g == get_current_user(s, token)
        key == UserKey(g.user.email)
        s1 == [s EXCEPT !.cache = g.cache]
    IN  IF g.status # 200 THEN AuthError(s, g)
        ELSE Out(UserResp(200, "You have logged out successfully", g, g.user),
                 [s1 EXCEPT
                    \* update_token on a transient object commits nothing
                    !.users = IF g.persistent THEN update_token(s, g.user, NoToken)
                              ELSE @,
                    !.cache = IF RedisHas(s1, key) THEN RedisDelete(@, key) ELSE @])

\* POST /request_email
request_email(s, email) ==
    IF ~HasUser(s, email) THEN Out(NotFound, s)
    ELSE LET user == get_user_by_email(s, email)
         IN  IF user.confirmed
             THEN Out(Resp(200, "Your email is already confirmed"), s)
             ELSE Out(Resp(200, "Check your email for confirmation."),
                      [s EXCEPT !.outbox = @ \cup {[email |-> user.email,
                                                    purpose |-> "confirm_email"]}])

\* POST /forgot_password (the route function is named reset_password)
reset_password(s, email) ==
    IF ~HasUser(s, email) THEN Out(NotFound, s)
    ELSE LET user == get_user_by_email(s, email)
         IN  Out(Resp(200, "Check your email for reset password."),
                 [s EXCEPT !.outbox = @ \cup {[email |-> user.email,
                                               purpose |-> "reset_password"]}])

\* GET /get_reset_token/{token}
get_reset_token(s, token) ==
    LET d == decode_token(token, s.now)
    IN  IF d.status # 200 THEN Out(Resp(d.status, d.detail), s)
        ELSE IF ~HasUser(s, d.email) THEN Out(NotFound, s)
        ELSE LET user == get_user_by_email(s, d.email)
                 reset_token == NonceKey(user.email, token)
             IN  IF ~s.redis_up THEN Out(ServerError, s)
                 ELSE
                 Out(Resp(200, "reset_token.html"),
                     [s EXCEPT !.cache =
                          IF RedisHas(s, reset_token) THEN @
                          ELSE RedisSetEx(@, reset_token, token, s.now)])

\* POST /reset_password
confirm_reset_password(s, token, password) ==
    LET d == decode_token(token, s.now)
    IN  IF d.status # 200 THEN Out(Resp(d.status, d.detail), s)
        ELSE IF ~HasUser(s, d.email) THEN Out(NotFound, s)
        ELSE LET user == get_user_by_email(s, d.email)
                 reset_token == NonceKey(user.email, token)
             IN  IF ~s.redis_up THEN Out(ServerError, s)
                 ELSE IF ~RedisHas(s, reset_token)
                 THEN Out(Resp(422, "Your password reset token has expired."), s)
                 ELSE IF user.confirmed
                 THEN Out(Resp(200, "Password succefuly updated"),
                          [s EXCEPT !.users = update_password(
                                         s, user, get_password_hash(password)),
                                    !.cache = RedisDelete(@, reset_token)])
                 ELSE \* "return user": the row is the response body
                      Out([Resp(200, "") EXCEPT !.user = user], s)

----------------------------------------------------------------------------
(* routes/routes_users.py *)

\* GET /users/my_profile
get_profile(s, token) ==
    LET g == get_current_user(s, token)
    IN  IF g.status # 200 THEN AuthError(s, g)
        ELSE Out(UserResp(200, "", g, g.user), [s EXCEPT !.cache = g.cache])

\* A row rebuilt with the column defaults
AvatarRow_rebuilt(s, user, url) ==
    [user EXCEPT !.avatar = url, !.updated_at = s.now, !.confirmed = FALSE]

\* crud_users.update_avatar: the row after the commit and db.refresh
AvatarRow(s, user, url) ==
    IF user.avatar = url THEN user
    ELSE [user EXCEPT !.avatar = url, !.updated_at = s.now]

\* PATCH /users/update_avatar
update_avatar(s, token, avatar, cloud_ok) ==
    LET g == get_current_user(s, token)
        s1 == [s EXCEPT !.cache = g.cache]
    IN  IF g.status # 200 THEN AuthError(s, g)
        ELSE IF ~cloud_ok
        THEN Out(Resp(408, "Request timeout. Please, try again"), s1)
        ELSE LET old == get_user_by_email(s, g.user.email)
                 user == AvatarRow(s, old, avatar)
             IN  Out(UserResp(200, "", g, user),
                     [s1 EXCEPT !.users = (@ \ {old}) \cup {user},
                                !.cache = RedisSetEx(@, UserKey(user.email),
                                                     Snapshot(user), s.now)])

\* DELETE /users/delete_profile
delete_profile(s, token, cloud_ok) ==
    LET g == get_current_user(s, token)
        s1 == [s EXCEPT !.cache = g.cache]
        cache_key == UserKey(g.user.email)
    IN  IF g.status # 200 THEN AuthError(s, g)
        ELSE IF ~cloud_ok
        THEN Out(Resp(408, "Request timeout. Please, try again"), s1)
        ELSE Out(UserResp(204, "", g, g.user),
                 [s1 EXCEPT !.users = @ \ {get_user_by_email(s, g.user.email)},
                            !.cache = IF RedisHas(s1, cache_key)
                                      THEN RedisDelete(@, cache_key) ELSE @])

----------------------------------------------------------------------------
(* The state machine *)

\* The refresh_token requests that may overlap, and a request not under way
Requests == {1, 2}

Idle == [pc |-> "idle", token |-> NoToken, user |-> NoUser]

Init ==
    /\ users = {}
    /\ next_id = 1
    /\ cache = {}
    /\ now = 0
    /\ issued = {}
    /\ used = {}
    /\ consumed = {}
    /\ rotated = {}
    /\ inflight = [q \in Requests |-> Idle]

\* BackgroundTasks: the scheduled tasks run after the response; a send may
\* fail (ConnectionErrors are logged and swallowed)
RECURSIVE RunTasks(_, _)
RunTasks(s, delivered) ==
    IF s.outbox = {} THEN s
    ELSE LET task == CHOOSE t \in s.outbox : TRUE
         IN  RunTasks(send_email(s, task, delivered).s, delivered)

\* The tokens the clients keep.  get_current_user reads only the validity and
\* the sub of an access token, so an access token is dropped once a later one
\* of the same identity is handed out: every request the older one can make,
\* the later one makes with the same outcome.
Wallet(ts) ==
    {t \in ts : t.scope = "access_token" =>
        ~\E t2 \in ts : /\ t2.scope = "access_token"
                         /\ t2.sub = t.sub
                         /\ t2.exp > t.exp}

\* The variables take the state a request leaves: the handler's, and then
\* that of its background tasks.  Handing out tokens and creating rows is
\* capped to keep the model finite.
Leaves(s0) ==
    \E delivered \in BOOLEAN :
        LET s == RunTasks(s0, delivered)
        IN  /\ s0.outbox = {} => delivered
            /\ Cardinality(Wallet(s.issued)) <= MaxIssued
            /\ s.next_id <= MaxId + 1
            /\ users' = s.users
            /\ next_id' = s.next_id
            /\ cache' = s.cache
            /\ issued' = Wallet(s.issued)
            /\ now' = s.now

\* A request handled in one step leaves the requests under way alone
Becomes(s0) == Leaves(s0) /\ UNCHANGED inflight

History == <<used, consumed, rotated>>

\* The clock advances; Redis drops the entries whose TTL has run out
Tick ==
    /\ \E t \in Times :
        /\ now < t
        /\ now' = t
        /\ cache' = Live(cache, t)
    /\ UNCHANGED <<users, next_id, issued, History, inflight>>

Signup ==
    \E email \in Emails, username \in Usernames, password \in Passwords,
       avatar \in Avatars :
        /\ Becomes(signup(State, email, username, password, avatar).s)
        /\ UNCHANGED History

Login ==
    \E email \in Emails, password \in Passwords :
        /\ Becomes(login(State, email, password).s)
        /\ UNCHANGED History

ConfirmedEmail ==
    \E token \in Presentable(State) :
        /\ Becomes(confirmed_email(State, token).s)
        /\ UNCHANGED History

RefreshToken ==
    \E token \in Presentable(State) :
        LET r == refresh_token(State, token)
        IN  /\ Becomes(r.s)
            /\ rotated' = IF Success(r.resp) /\ token.scope = "refresh_token"
                          THEN rotated \cup {token} ELSE rotated
            /\ UNCHANGED <<used, consumed>>

\* A refresh_token request reads the identity (await get_user_by_email) and
\* yields; other requests run before it goes on
RefreshRead(q) ==
    \E token \in Presentable(State) :
        /\ inflight[q] = Idle
        /\ decode_token(token, now).status = 200
        /\ HasUser(State, token.sub)
        /\ inflight' = [inflight EXCEPT ![q] =
               [pc |-> "read", token |-> token,
                user |-> get_user_by_email(State, token.sub)]]
        /\ UNCHANGED <<users, next_id, cache, now, issued, History>>

\* The request goes on with the object it read: comparison, update_token
RefreshWrite(q) ==
    /\ inflight[q].pc = "read"
    /\ LET r == refresh_token_commit(State, inflight[q].token, inflight[q].user)
       IN  /\ Leaves(r.s)
           /\ rotated' = IF Success(r.resp) /\ inflight[q].token.scope = "refresh_token"
                         THEN rotated \cup {inflight[q].token} ELSE rotated
    /\ inflight' = [inflight EXCEPT ![q] = Idle]
    /\ UNCHANGED <<used, consumed>>

\* A resolution of the current user reads the identity (await
\* get_user_by_email) and yields; other requests run before it goes on
ResolveRead(q) ==
    \E token \in Presentable(State) :
        /\ inflight[q] = Idle
        /\ JwtValid(token, now)
        /\ token.scope = "access_token"
        /\ HasUser(State, token.sub)
        /\ inflight' = [inflight EXCEPT ![q] =
               [pc |-> "resolve", token |-> token,
                user |-> get_user_by_email(State, token.sub)]]
        /\ UNCHANGED <<users, next_id, cache, now, issued, History>>

\* The resolution goes on with the object it read: redis.get, redis.set
ResolveCache(q) ==
    \E up \in BOOLEAN :
        /\ inflight[q].pc = "resolve"
        /\ Leaves([State EXCEPT !.cache =
               get_current_user_cache(Serving(up), inflight[q].user).cache])
        /\ inflight' = [inflight EXCEPT ![q] = Idle]
        /\ UNCHANGED History

Logout ==
    \E token \in Presentable(State), up \in BOOLEAN :
        /\ Becomes(logout(Serving(up), token).s)
        /\ UNCHANGED History

RequestEmail ==
    \E email \in Emails :
        /\ Becomes(request_email(State, email).s)
        /\ UNCHANGED History

ForgotPassword ==
    \E email \in Emails :
        /\ Becomes(reset_password(State, email).s)
        /\ UNCHANGED History

GetResetToken ==
    \E token \in Presentable(State), up \in BOOLEAN :
        LET r == get_reset_token(Serving(up), token)
        IN  /\ Becomes(r.s)
            /\ consumed' = IF Success(r.resp) THEN consumed \ {token} ELSE consumed
            /\ UNCHANGED <<used, rotated>>

ConfirmResetPassword ==
    \E token \in Presentable(State), password \in Passwords, up \in BOOLEAN :
        LET r == confirm_reset_password(Serving(up), token, password)
            changed == /\ r.resp.detail = "Password succefuly updated"
                       /\ token.scope = "reset_password"
        IN  /\ Becomes(r.s)
            /\ used' = IF changed THEN used \cup {token} ELSE used
            /\ consumed' = IF changed THEN consumed \cup {token} ELSE consumed
            /\ UNCHANGED rotated

GetProfile ==
    \E token \in Presentable(State), up \in BOOLEAN :
        /\ Becomes(get_profile(Serving(up), token).s)
        /\ UNCHANGED History

UpdateAvatar ==
    \E token \in Presentable(State), avatar \in Avatars,
       cloud_ok \in BOOLEAN, up \in BOOLEAN :
        /\ Becomes(update_avatar(Serving(up), token, avatar, cloud_ok).s)
        /\ UNCHANGED History

DeleteProfile ==
    \E token \in Presentable(State), cloud_ok \in BOOLEAN, up \in BOOLEAN :
        /\ Becomes(delete_profile(Serving(up), token, cloud_ok).s)
        /\ UNCHANGED History

Next ==
    \/ Tick
    \/ Signup
    \/ Login
    \/ ConfirmedEmail
    \/ RefreshToken
    \/ Logout
    \/ RequestEmail
    \/ ForgotPassword
    \/ GetResetToken
    \/ ConfirmResetPassword
    \/ GetProfile
    \/ UpdateAvatar
    \/ DeleteProfile
    \/ \E q \in Requests : RefreshRead(q)
    \/ \E q \in Requests : RefreshWrite(q)
    \/ \E q \in Requests : ResolveRead(q)
    \/ \E q \in Requests : ResolveCache(q)

Spec == Init /\ [][Next]_vars

\* Sessions alone: no password recovery
NextSession ==
    \/ Tick
    \/ Signup
    \/ Login
    \/ ConfirmedEmail
    \/ RefreshToken
    \/ Logout
    \/ RequestEmail
    \/ GetProfile
    \/ UpdateAvatar
    \/ DeleteProfile

SpecSession == Init /\ [][NextSession]_vars

\* Password recovery, of identities that can log in
NextRecovery ==
    \/ Tick
    \/ Signup
    \/ Login
    \/ ConfirmedEmail
    \/ ForgotPassword
    \/ GetResetToken
    \/ ConfirmResetPassword

SpecRecovery == Init /\ [][NextRecovery]_vars

\* Overlapping refresh_token requests
NextRace ==
    \/ Tick
    \/ Signup
    \/ Login
    \/ ConfirmedEmail
    \/ \E q \in Requests : RefreshRead(q)
    \/ \E q \in Requests : RefreshWrite(q)

SpecRace == Init /\ [][NextRace]_vars

\* The request whose resolution overlaps with delete_profile
Resolvers == {1}

\* A resolution of the current user overlapping with delete_profile
NextResolveRace ==
    \/ Tick
    \/ Signup
    \/ Login
    \/ ConfirmedEmail
    \/ DeleteProfile
    \/ \E q \in Resolvers : ResolveRead(q)
    \/ \E q \in Resolvers : ResolveCache(q)

SpecResolveRace == Init /\ [][NextResolveRace]_vars

----------------------------------------------------------------------------
(* Properties *)

Stored(s, email) == get_user_by_email(s, email).refresh_token

Changed(resp) == resp.detail = "Password succefuly updated"

InvalidRefreshToken(resp) ==
    resp.status = 401 /\ resp.detail = "Invalid refresh token"

\* C1: a validly signed, unexpired token is rejected by every operation that
\* requires another scope: get_current_user requires access, refresh_token
\* refresh, confirmed_email confirm_email, get_reset_token and reset_password
\* reset_password.
C1_CrossScopeRejected ==
    \A token \in Presentable(State) :
        JwtValid(token, now) =>
            /\ token.scope # "access_token" =>
                   get_current_user(State, token).status # 200
            /\ token.scope # "refresh_token" =>
                   ~Success(refresh_token(State, token).resp)
            /\ token.scope # "confirm_email" =>
                   ~Success(confirmed_email(State, token).resp)
            /\ token.scope # "reset_password" =>
                   /\ ~Success(get_reset_token(State, token).resp)
                   /\ \A password \in Passwords :
                          ~Success(confirm_reset_password(State, token, password).resp)

\* C2: a refresh token that a successful refresh_token call presented is
\* rejected with 401 "Invalid refresh token" by every later refresh_token call
\* made before its expiry.
C2_RotatedTokenRejected ==
    \A token \in rotated :
        (JwtValid(token, now) /\ HasUser(State, token.sub)) =>
            InvalidRefreshToken(refresh_token(State, token).resp)

\* C3: after every successful logout the identity's stored refresh token is
\* null, its cache entry is absent, and no refresh token held before the
\* logout is accepted by refresh_token.
C3_LogoutRevokes ==
    \A token \in Presentable(State) :
        LET r == logout(State, token)
        IN  Success(r.resp) =>
                /\ Stored(r.s, token.sub) = NoToken
                /\ ~RedisHas(r.s, UserKey(token.sub))
                /\ \A held \in Presentable(State) :
                       ~Success(refresh_token(r.s, held).resp)

\* C4: a reset token changes a password at most once: a token with which
\* reset_password has changed a password never changes one again.
C4_ResetTokenSingleUse ==
    \A token \in used, password \in Passwords :
        ~Changed(confirm_reset_password(State, token, password).resp)

\* The case of C5: a reset token of a confirmed identity whose nonce is present
ResetReady(s, token) ==
    /\ token.scope = "reset_password"
    /\ JwtValid(token, s.now)
    /\ HasUser(s, token.sub)
    /\ get_user_by_email(s, token.sub).confirmed
    /\ RedisHas(s, NonceKey(token.sub, token))

\* C5: for a reset token whose nonce is present, the first reset_password call
\* succeeds and sets the password; a second call with the same token, with no
\* get_reset_token in between, fails with 422 and leaves the store unchanged.
C5_SecondResetFails ==
    /\ \A token \in Presentable(State), password \in Passwords :
           ResetReady(State, token) =>
               LET first == confirm_reset_password(State, token, password)
               IN  /\ first.resp.status = 200
                   /\ Changed(first.resp)
                   /\ get_user_by_email(first.s, token.sub).password
                          = get_password_hash(password)
                   /\ \A again \in Passwords :
                          LET second == confirm_reset_password(first.s, token, again)
                          IN  /\ second.resp.status = 422
                              /\ second.s.users = first.s.users
    /\ \A token \in consumed, password \in Passwords :
           (JwtValid(token, now) /\ HasUser(State, token.sub)) =>
               LET second == confirm_reset_password(State, token, password)
               IN  /\ second.resp.status = 422
                   /\ second.s.users = users

\* A reset token has changed the password and is presented again
C5_Witness ==
    \E token \in consumed :
        /\ JwtValid(token, now)
        /\ HasUser(State, token.sub)
        /\ get_user_by_email(State, token.sub).password = get_password_hash("p2")
        /\ confirm_reset_password(State, token, "p1").resp.status = 422

\* The case of C6: a well-formed refresh token that is not the stored one
StaleRefresh(s, token) ==
    /\ token.scope = "refresh_token"
    /\ JwtValid(token, s.now)
    /\ HasUser(s, token.sub)
    /\ Stored(s, token.sub) # token

\* C6: refresh_token with a refresh token that differs from the stored value
\* (stored null included) answers 401 "Invalid refresh token" and leaves the
\* stored value null, so that no refresh token at all is accepted afterwards.
C6_MismatchRevokes ==
    \A token \in Presentable(State) :
        StaleRefresh(State, token) =>
            LET r == refresh_token(State, token)
            IN  /\ InvalidRefreshToken(r.resp)
                /\ Stored(r.s, token.sub) = NoToken
                /\ \A held \in Presentable(State) :
                       ~Success(refresh_token(r.s, held).resp)

\* A stale refresh token exists while another refresh token is still accepted
C6_Witness ==
    \E token, held \in issued :
        /\ StaleRefresh(State, token)
        /\ Stored(State, token.sub) = held
        /\ Success(refresh_token(State, held).resp)
        /\ ~Success(refresh_token(refresh_token(State, token).s, held).resp)

\* The refresh tokens that refresh_token accepts for an identity
Accepted(s, email) ==
    {token \in Presentable(s) :
        /\ token.sub = email
        /\ Success(refresh_token(s, token).resp)}

\* C7: at most one refresh token per identity is accepted, and right after a
\* successful login every refresh token issued earlier for that identity is
\* rejected.
C7_SingleRefreshToken ==
    /\ \A email \in Emails : Cardinality(Accepted(State, email)) <= 1
    /\ \A email \in Emails, password \in Passwords :
           LET r == login(State, email, password)
           IN  Success(r.resp) =>
                   \A token \in issued :
                       (token.scope = "refresh_token" /\ token.sub = email) =>
                           ~Success(refresh_token(r.s, token).resp)

\* The fields of an identity that a response shows
Observable(user) ==
    [id |-> user.id, username |-> user.username, email |-> user.email,
     avatar |-> user.avatar, created_at |-> user.created_at,
     updated_at |-> user.updated_at]

\* C8: the identity that get_current_user returns for a valid access token has
\* the observable fields of the store's current record, from cache or store.
C8_CacheTransparent ==
    \A token \in Presentable(State) :
        LET g == get_current_user(State, token)
        IN  g.status = 200 =>
                Observable(g.user) = Observable(get_user_by_email(State, token.sub))

\* The refresh tokens of the identities: stored ones and issued ones
RefreshTokens ==
    ({u.refresh_token : u \in users} \ {NoToken})
        \cup {token \in issued : token.scope = "refresh_token"}

\* C9: no cache entry holds a refresh token in its key or in its value.
C9_NoRefreshTokenInCache ==
    \A en \in cache, token \in RefreshTokens :
        en.key.token # token /\ en.value # token

\* C10: login answers 404 when no identity has the email, else 401 "Please,
\* confirm your email!" when it is unconfirmed, else 401 "Invalid password"
\* when the password does not verify; a failed login changes nothing.
C10_LoginFailures ==
    \A email \in Emails, password \in Passwords :
        LET r == login(State, email, password)
            user == get_user_by_email(State, email)
        IN  /\ ~HasUser(State, email) => r.resp = NotFound
            /\ (HasUser(State, email) /\ ~user.confirmed) =>
                   /\ r.resp.status = 401
                   /\ r.resp.detail = "Please, confirm your email!"
            /\ (HasUser(State, email) /\ user.confirmed
                    /\ user.password # get_password_hash(password)) =>
                   /\ r.resp.status = 401
                   /\ r.resp.detail = "Invalid password"
            /\ ~Success(r.resp) => r.s = State

\* A confirmed identity is offered a wrong password while it holds a session
C10_Witness ==
    \E email \in Emails :
        /\ HasUser(State, email)
        /\ get_user_by_email(State, email).confirmed
        /\ Stored(State, email) # NoToken
        /\ login(State, email, "p2").resp.detail = "Invalid password"

\* The nonce of a reset token is in the cache and has not run out
NoncePresent(token) ==
    \E en \in cache : en.key = NonceKey(token.sub, token) /\ now < en.exp

\* C11: reset_password changes the stored password only when its lookup of the
\* nonce returned a value: with the nonce absent it answers 422, with the cache
\* unreachable it fails too, and in both cases the store is unchanged.
C11_NonceRequired ==
    \A token \in Presentable(State), password \in Passwords, up \in BOOLEAN :
        LET r == confirm_reset_password(Serving(up), token, password)
            looked_up == decode_token(token, now).status = 200
                             /\ HasUser(State, token.sub)
        IN  /\ r.s.users # users => (up /\ NoncePresent(token))
            /\ (looked_up /\ up /\ ~NoncePresent(token)) =>
                   r.resp.status = 422 /\ r.s.users = users
            /\ (looked_up /\ ~up) =>
                   ~Success(r.resp) /\ r.s.users = users

\* A reset token met by a cache outage while its nonce is present, and a
\* consumed one whose nonce is absent
C11_Witness ==
    /\ \E token \in issued :
           /\ ResetReady(State, token)
           /\ confirm_reset_password(Serving(FALSE), token, "p2").resp.status = 500
    /\ \E token \in consumed :
           /\ JwtValid(token, now)
           /\ HasUser(State, token.sub)
           /\ ~NoncePresent(token)
           /\ confirm_reset_password(State, token, "p2").resp.status = 422

\* C12: reset_password with a valid token and a present nonce for an
\* Unconfirmed identity is rejected and changes neither the password nor the
\* nonce.
C12_UnconfirmedRejected ==
    \A token \in Presentable(State), password \in Passwords :
        (/\ token.scope = "reset_password"
         /\ JwtValid(token, now)
         /\ HasUser(State, token.sub)
         /\ ~get_user_by_email(State, token.sub).confirmed
         /\ NoncePresent(token)) =>
            LET r == confirm_reset_password(State, token, password)
            IN  /\ ~Success(r.resp)
                /\ r.s.users = users
                /\ r.s.cache = cache

\* C13: with the cache unreachable, get_current_user with a valid access token
\* of an existing identity succeeds and returns the identity of the store.
C13_OutageFallsBack ==
    \A token \in Presentable(State) :
        (/\ token.scope = "access_token"
         /\ JwtValid(token, now)
         /\ HasUser(State, token.sub)) =>
            LET g == get_current_user(Serving(FALSE), token)
            IN  /\ g.status = 200
                /\ g.user = get_user_by_email(State, token.sub)

\* C14: of two overlapping refresh_token requests that have both read the
\* identity while the token they present is the stored one, at most one
\* rotates, in whichever order they go on; the other answers 401 "Invalid
\* refresh token".
C14_OneRotation ==
    \A q1, q2 \in Requests :
        (/\ q1 # q2
         /\ inflight[q1].pc = "read"
         /\ inflight[q2].pc = "read"
         /\ inflight[q1].token = inflight[q2].token
         /\ inflight[q1].token.scope = "refresh_token"
         /\ JwtValid(inflight[q1].token, now)
         /\ Stored(State, inflight[q1].token.sub) = inflight[q1].token) =>
            LET first == refresh_token_commit(State, inflight[q1].token,
                                              inflight[q1].user)
                second == refresh_token_commit(first.s, inflight[q2].token,
                                               inflight[q2].user)
            IN  Success(first.resp) => InvalidRefreshToken(second.resp)

\* C15: get_current_user answers 401 "Could not validate credentials" for a
\* bad signature, an expired token, a token of another scope, and a valid
\* access token whose identity is no longer in the store.
C15_Unauthenticated ==
    \A token \in Presentable(State) :
        (\/ ~token.signed
         \/ token.exp < now
         \/ token.scope # "access_token"
         \/ ~HasUser(State, token.sub)) =>
            LET g == get_current_user(State, token)
            IN  g.status = 401 /\ g.detail = "Could not validate credentials"

\* Emails and usernames a request can carry, registered or not
AnyEmails == Emails \cup {"e2"}

AnyUsernames == Usernames \cup {"u2"}

\* C16: forgot_password gives the same success response whether or not the
\* email is registered, schedules the reset email only when it is, and changes
\* neither the store nor the cache.
C16_ForgotPasswordUniform ==
    \A email \in AnyEmails :
        LET r == reset_password(State, email)
        IN  /\ r.resp = Resp(200, "Check your email for reset password.")
            /\ (r.s.outbox # {}) <=> HasUser(State, email)
            /\ r.s.users = users
            /\ r.s.cache = cache

\* C20: a valid token whose scope is not refresh, presented to refresh_token,
\* is rejected and the identity's stored refresh token stays as it was.
C20_WrongScopeNoEffect ==
    \A token \in Presentable(State) :
        (/\ JwtValid(token, now)
         /\ token.scope # "refresh_token"
         /\ HasUser(State, token.sub)) =>
            LET r == refresh_token(State, token)
            IN  /\ ~Success(r.resp)
                /\ Stored(r.s, token.sub) = Stored(State, token.sub)

\* What confirmed_email can leave, for every token a client can present
ConfirmOutcomes ==
    {confirmed_email(State, token) : token \in Presentable(State)}

\* What every other operation can leave, for every input
OtherOutcomes ==
    {signup(State, e, u, p, a) :
        e \in AnyEmails, u \in AnyUsernames, p \in Passwords, a \in Avatars}
    \cup {login(State, e, p) : e \in AnyEmails, p \in Passwords}
    \cup {refresh_token(State, t) : t \in Presentable(State)}
    \cup {request_email(State, e) : e \in AnyEmails}
    \cup {reset_password(State, e) : e \in AnyEmails}
    \cup UNION {{logout(Serving(up), t), get_reset_token(Serving(up), t),
                 get_profile(Serving(up), t)} :
                    t \in Presentable(State), up \in BOOLEAN}
    \cup {confirm_reset_password(Serving(up), t, p) :
             t \in Presentable(State), p \in Passwords, up \in BOOLEAN}
    \cup {update_avatar(Serving(up), t, a, ok) :
             t \in Presentable(State), a \in Avatars, ok \in BOOLEAN,
             up \in BOOLEAN}
    \cup {delete_profile(Serving(up), t, ok) :
             t \in Presentable(State), ok \in BOOLEAN, up \in BOOLEAN}

\* The confirmed flag of the identity with this id, FALSE when there is none
Flag(us, id) == \E u \in us : u.id = id /\ u.confirmed

Ids(us) == {u.id : u \in us}

C18_DuplicateSignup ==
    \A email \in AnyEmails, username \in AnyUsernames,
       password \in Passwords, avatar \in Avatars :
        (\E u \in users : u.email = email \/ u.username = username) =>
            LET r == signup(State, email, username, password, avatar)
            IN  /\ r.resp = Resp(409, "Data already exists. Check input data, please")
                /\ r.s.users = users
                /\ r.s.outbox = {}
                /\ r.s = State

\* An identity exists; one signup repeats only its email, another only its
\* username
C18_Witness ==
    /\ HasUser(State, "e1")
    /\ get_user_by_email(State, "e1").username = "u1"
    /\ signup(State, "e1", "u2", "p1", "a1").resp.status = 409
    /\ signup(State, "e2", "u1", "p1", "a1").resp.status = 409

\* What signup, request_email and forgot_password can leave
MailingOutcomes ==
    {signup(State, e, u, p, a) :
        e \in AnyEmails, u \in AnyUsernames, p \in Passwords, a \in Avatars}
    \cup {request_email(State, e) : e \in AnyEmails}
    \cup {reset_password(State, e) : e \in AnyEmails}

\* C19: signup, request_email and forgot_password have produced their response
\* (and signup has persisted the identity) before the email is dispatched, and
\* a failed dispatch changes neither that response nor the store.
C19_DispatchAfterResponse ==
    \A r \in MailingOutcomes :
        /\ r.s.issued = issued
        /\ \A task \in r.s.outbox : HasUser(r.s, task.email)
        /\ r.resp.status = 201 =>
               /\ r.s.outbox # {}
               /\ r.resp.user \in r.s.users
        /\ \A delivered \in BOOLEAN :
               LET after == RunTasks(r.s, delivered)
               IN  /\ after.users = r.s.users
                   /\ after.cache = r.s.cache
                   /\ after.outbox = {}
                   /\ ~delivered => after.issued = issued

\* An identity that signup persisted although its confirmation email failed,
\* and that can ask for the email again
C19_Witness ==
    \E u \in users :
        /\ ~u.confirmed
        /\ ~\E token \in issued : token.sub = u.email
        /\ request_email(State, u.email).s.outbox # {}
        /\ RunTasks(request_email(State, u.email).s, FALSE).users = users

\* The refresh tokens issued so far for an identity
IssuedRefresh(email) ==
    {token \in issued : token.scope = "refresh_token" /\ token.sub = email}

\* C21: the refresh token that a successful login or refresh returns differs
\* from every refresh token issued earlier for the identity, one issued in the
\* same second included.
C21_FreshRefreshToken ==
    /\ \A email \in Emails, password \in Passwords :
           LET r == login(State, email, password)
           IN  Success(r.resp) => r.resp.refresh \notin IssuedRefresh(email)
    /\ \A token \in Presentable(State) :
           LET r == refresh_token(State, token)
           IN  Success(r.resp) => r.resp.refresh \notin IssuedRefresh(token.sub)

\* The answers of the four operations that decode a token
DecodingResponses(token) ==
    {refresh_token(State, token).resp, confirmed_email(State, token).resp,
     get_reset_token(State, token).resp}
    \cup {confirm_reset_password(State, token, p).resp : p \in Passwords}

\* C23: refresh_token, confirmed_email, get_reset_token and reset_password
\* answer a token rejected for its signature, its expiry or its scope with the
\* same 401 "Could not validate credentials".
C23_UniformRejection ==
    \A token \in Presentable(State) :
        (\/ ~token.signed
         \/ token.exp < now
         \/ token.scope = "access_token") =>
            \A resp \in DecodingResponses(token) :
                resp.status = 401 /\ resp.detail = "Could not validate credentials"

\* C24: get_current_user consults the cache before the store, and on a cache
\* hit it returns the snapshot without reading the store.
C24_CacheBeforeStore ==
    \A token \in Presentable(State) :
        LET g == get_current_user(State, token)
        IN  /\ g.reads # <<>> => g.reads[1] = "cache"
            /\ g.src = "cache" => \A i \in DOMAIN g.reads : g.reads[i] # "store"

\* C25: once delete_profile has completed, the cache holds no identity entry
\* for an email that the store does not hold, however a resolution of the
\* current user was interleaved with it.
C25_DeleteLeavesNoEntry ==
    \A en \in Live(cache, now) :
        (en.key.kind = "user" /\ inflight = [q \in Requests |-> Idle]) =>
            HasUser(State, en.key.email)

\* C30: get_current_user looks the identity up in the store first, on every
\* call, and never returns an identity whose email the store does not hold,
\* cache entry or not.
C30_StoreIsAuthority ==
    \A token \in Presentable(State), up \in BOOLEAN :
        LET g == get_current_user(Serving(up), token)
        IN  /\ g.reads # <<>> => g.reads[1] = "store"
            /\ g.status = 200 => HasUser(State, g.user.email)
            /\ ~HasUser(State, token.sub) => g.status # 200 /\ g.cache = cache

\* A cache entry outlives its identity, whose access token is still valid
C30_Witness ==
    \E token \in issued :
        /\ token.scope = "access_token"
        /\ JwtValid(token, now)
        /\ ~HasUser(State, token.sub)
        /\ RedisHas(State, UserKey(token.sub))
        /\ get_current_user(State, token).status = 404

\* The state with every identity cache entry dropped
Dropped == [State EXCEPT !.cache = {en \in @ : en.key.kind # "user"}]

\* What the caller sees of a response
Shown(resp) ==
    [status |-> resp.status, detail |-> resp.detail,
     user |-> Observable(resp.user), access |-> resp.access,
     refresh |-> resp.refresh]

\* Two runs of an operation agree on the response and on the stored identities
Same(a, b) == Shown(a.resp) = Shown(b.resp) /\ a.s.users = b.s.users

\* C22: dropping every identity cache entry changes neither the response nor
\* the store effect of the operation that follows: get_current_user, logout,
\* update_avatar and delete_profile (the operations that use the identity
\* cache) act alike with the cache and with the cache emptied.
C22_CacheDisposable ==
    \A token \in Presentable(State) :
        /\ Same(get_profile(State, token), get_profile(Dropped, token))
        /\ Same(logout(State, token), logout(Dropped, token))
        /\ \A avatar \in Avatars, cloud_ok \in BOOLEAN :
               Same(update_avatar(State, token, avatar, cloud_ok),
                    update_avatar(Dropped, token, avatar, cloud_ok))
        /\ \A cloud_ok \in BOOLEAN :
               Same(delete_profile(State, token, cloud_ok),
                    delete_profile(Dropped, token, cloud_ok))

\* The lifetime the code gives a token of this scope
DefaultTTL(scope) ==
    IF scope = "refresh_token" THEN RefreshTTL
    ELSE IF scope = "access_token" THEN AccessTTL
    ELSE EmailTTL

\* The state once the clock reads t
At(t) == [State EXCEPT !.now = t]

\* Every operation that takes a token answers 401 and leaves the store alone
RejectedEverywhere(s, token) ==
    /\ get_current_user(s, token).status = 401
    /\ \A r \in {refresh_token(s, token), confirmed_email(s, token),
                 get_reset_token(s, token)}
              \cup {confirm_reset_password(s, token, p) : p \in Passwords} :
           /\ r.resp.status = 401
           /\ r.s.users = s.users

\* C26: no operation accepts a token after its expires-at, which is 15 minutes
\* after issuance for access and email tokens and 7 days after issuance for
\* refresh tokens; reset_password rejects an expired reset token even while
\* its nonce is in the cache.
C26_ExpiredRejected ==
    /\ \A token \in issued : token.exp = token.iat + DefaultTTL(token.scope)
    /\ \A token \in issued :
           \A t \in {now, token.exp + 1} :
               (now <= t /\ token.exp < t) => RejectedEverywhere(At(t), token)

\* A reset token has expired while its nonce is still in the cache
C26_Witness ==
    \E token \in issued :
        /\ token.scope = "reset_password"
        /\ token.exp < now
        /\ NoncePresent(token)
        /\ HasUser(State, token.sub)
        /\ get_user_by_email(State, token.sub).confirmed
        /\ confirm_reset_password(State, token, "p2").resp.status = 401

WithStored(token) ==
    [State EXCEPT !.users = {[u EXCEPT !.refresh_token = token] : u \in @}]

\* C28: after a successful logout get_current_user accepts the identity's
\* unexpired access token and writes the identity cache entry anew; whether
\* an access token is accepted does not depend on the stored refresh token.
C28_LogoutKeepsAccess ==
    /\ \A token \in Presentable(State) :
           LET r == logout(State, token)
               g == get_current_user(r.s, token)
           IN  Success(r.resp) =>
                   /\ ~RedisHas(r.s, UserKey(token.sub))
                   /\ g.status = 200
                   /\ g.src = "store"
                   /\ RedisHas([r.s EXCEPT !.cache = g.cache], UserKey(token.sub))
    /\ \A token \in Presentable(State) :
           \A stored \in {NoToken} \cup IssuedRefresh(token.sub) :
               get_current_user(WithStored(stored), token).status
                   = get_current_user(State, token).status

\* A logout finds the identity in the cache, succeeds and removes the entry;
\* the access token it was made with is accepted afterwards
C28_Witness ==
    \E token \in issued :
        /\ RedisHas(State, UserKey(token.sub))
        /\ Success(logout(State, token).resp)
        /\ ~RedisHas(logout(State, token).s, UserKey(token.sub))
        /\ get_current_user(logout(State, token).s, token).status = 200

\* The states in which a reset can find the system: the state as it is, and
\* the state after a resolution of the current user has filled the cache
ResetStates == {State} \cup {get_profile(State, a).s : a \in Presentable(State)}

\* What a successful reset_password in state s changes and what it leaves
ResetFrame(s, token, password) ==
    LET r == confirm_reset_password(s, token, password)
        old == get_user_by_email(s, token.sub)
        new == get_user_by_email(r.s, token.sub)
    IN  Changed(r.resp) =>
            /\ HasUser(r.s, token.sub)
            /\ r.s.users \ {new} = s.users \ {old}
            /\ new = [old EXCEPT !.password = get_password_hash(password),
                                 !.updated_at = new.updated_at]
            /\ new.updated_at \in {old.updated_at, s.now}
            /\ r.s.cache = {en \in s.cache : en.key # NonceKey(token.sub, token)}
            /\ \A t \in Presentable(s) :
                   /\ Success(refresh_token(s, t).resp) =>
                          Success(refresh_token(r.s, t).resp)
                   /\ get_current_user(s, t).status = 200 =>
                          /\ get_current_user(r.s, t).status = 200
                          /\ get_current_user(r.s, t).src = get_current_user(s, t).src

\* C29: a successful reset_password changes only the password hash (and
\* updated-at) and deletes the nonce; the stored refresh token, the confirmed
\* flag and the identity cache entry stay, and the refresh and access tokens
\* issued before are accepted afterwards.
C29_ResetFrame ==
    \A s \in ResetStates :
        \A token \in Presentable(State), password \in Passwords :
            ResetFrame(s, token, password)

\* A reset is about to succeed for an identity that holds a session and has
\* an identity cache entry
C29_Witness ==
    \E s \in ResetStates :
        \E token, held, access \in issued :
            /\ ResetReady(s, token)
            /\ RedisHas(s, UserKey(token.sub))
            /\ Success(refresh_token(s, held).resp)
            /\ get_current_user(s, access).src = "cache"
            /\ Changed(confirm_reset_password(s, token, "p2").resp)
            /\ get_user_by_email(s, token.sub).password # get_password_hash("p2")
====
